---------------------------- MODULE Spec2Model ----------------------------
(***************************************************************************)
(* func_archival: generation and submission of per-subject workflow        *)
(* scripts.                                                                *)
(*                                                                         *)
(*   SpecObj   clients of submit.ScheduleWorkflow (omnibus, submit)         *)
(*   SpecMain  cli._get_args and cli.main                                   *)
(*   SpecWf    workflows.omnibus and workflows.run_preprocess               *)
(*                                                                         *)
(* Strings are Python strings; a dict is the sequence of its items in      *)
(* insertion order, each value held as its repr().                         *)
(***************************************************************************)
EXTENDS Integers, Sequences, FiniteSets, TLC

VARIABLES
    \* ---- submit.ScheduleWorkflow and its environment
    objs,           \* object id -> the attributes of that ScheduleWorkflow
    executable,     \* sys.executable of the running interpreter
    dirs,           \* directories that exist on the filesystem
    fs,             \* files on the filesystem: path -> lines written
    history,        \* the method calls made so far, with their outcome
    sbatch_calls,   \* shell commands handed to subprocess.Popen
    proc,           \* the sbatch child process of the submit() in progress
    call,           \* the submit() in progress, if any
    printed,        \* lines print() wrote to stdout
    \* ---- cli.main
    argv,           \* the options given on the command line
    subj_list,      \* args.subj_list
    environ,        \* names present in os.environ
    main_pc,        \* position of main
    main_fault,     \* exception that left main
    exit_status,    \* status given to sys.exit
    idx,            \* 1-based index of the subject the loop works on; 0 before
    \* ---- workflows.omnibus
    wf_preproc_args,
    wf_model_args,
    wf_paths_exist,
    wf_types_ok,
    wf_pc,
    wf_fault,
    wf_calls,
    wf_dirs

objVars == <<objs, executable, dirs, fs, history, sbatch_calls, proc, call, printed>>
mainVars == <<argv, subj_list, environ, main_pc, main_fault, exit_status, idx>>
wfVars == <<wf_preproc_args, wf_model_args, wf_paths_exist, wf_types_ok,
            wf_pc, wf_fault, wf_calls, wf_dirs>>
vars == <<objVars, mainVars, wfVars>>

---------------------------------------------------------------------------
(* Bounds and input sets *)

\* method calls a client makes on the objects in one behaviour
MaxOps == 3
\* longest --subj-list
MaxSubj == 2

Objs == {"sw1", "sw2"}
Subjects == {"sub-08326", "sub-08399"}
LogDirs == {"/work/u/logs/a", "/work/u/logs/b"}
ProjDir == "/proj/data_mri_BIDS"
WorkDir == "/work/u/EmoRep"
UserName == "u"
Executables == {"/env/bin/python"}

\* constructor arguments of the objects: one base choice, and the base with one
\* argument changed
BaseArgs ==
    [subj |-> "sub-08326", sess |-> "ses-BAS1", proj_dir |-> ProjDir,
     work_dir |-> WorkDir, log_dir |-> "/work/u/logs/a", user_name |-> UserName]
CtorArgs ==
    { BaseArgs,
      [BaseArgs EXCEPT !.subj = "sub-08399"],
      [BaseArgs EXCEPT !.sess = "ses-BAS2"],
      [BaseArgs EXCEPT !.proj_dir = "/proj/other_BIDS"],
      [BaseArgs EXCEPT !.work_dir = "/work/v/EmoRep"],
      [BaseArgs EXCEPT !.log_dir = "/work/u/logs/b"],
      [BaseArgs EXCEPT !.user_name = "v"],
      \* identifiers that hold the "_" the file name is joined with
      [BaseArgs EXCEPT !.sess = "ses-BAS1_run-2"],
      [BaseArgs EXCEPT !.subj = "sub-08326_ses-BAS1", !.sess = "run-2"] }
\* what sbatch writes to its stdout: a job id, or nothing when it rejects
SbatchOutputs == {"Submitted batch job 7\n", ""}

\* two dicts with the same items in a different insertion order
PreprocRecA == << <<"fd_thresh", "0.5">>, <<"ignore_fmaps", "False">> >>
PreprocRecB == << <<"ignore_fmaps", "False">>, <<"fd_thresh", "0.5">> >>
PreprocRecords == {PreprocRecA, PreprocRecB}
ModelRecords == { << <<"model_name", "'rest'">> >> }

---------------------------------------------------------------------------
(* Python values *)

Keys(d) == {d[i][1] : i \in DOMAIN d}

RECURSIVE JoinItems(_)
JoinItems(d) ==
    IF d = <<>> THEN ""
    ELSE "'" \o d[1][1] \o "': " \o d[1][2]
         \o (IF Len(d) = 1 THEN "" ELSE ", " \o JoinItems(Tail(d)))

\* repr(dict), what an f-string puts for {preproc_args}
DictRepr(d) == "{" \o JoinItems(d) \o "}"

\* s[n:] for a str
StrFrom(s, n) == IF Len(s) <= n THEN "" ELSE SubSeq(s, n + 1, Len(s))

\* os.path.join(a, b) for a relative b
PathJoin(a, b) == a \o "/" \o b

---------------------------------------------------------------------------
(* submit.ScheduleWorkflow *)

NoFile == [p \in {} |-> <<>>]
Idle == "idle"
NoProc == [state |-> "none", stdout |-> ""]

\* __init__: six attributes are bound; py_script is not an attribute yet
\* (py_script is <<>> while the attribute is absent, <<path>> once set)
ScheduleWorkflowInit(subj, sess, proj_dir, work_dir, log_dir, user_name) ==
    [subj |-> subj, sess |-> sess, proj_dir |-> proj_dir, work_dir |-> work_dir,
     log_dir |-> log_dir, user_name |-> user_name, py_script |-> <<>>]

\* hasattr(self, "py_script")
HasPyScript(self) == self.py_script # <<>>

\* _sbatch_head, as the lines that remain after textwrap.dedent
SbatchHead(self) ==
    << "#!/bin/env " \o executable,
       "#SBATCH --job-name=p" \o StrFrom(self.subj, 4),
       "#SBATCH --output=" \o self.log_dir \o "/par" \o StrFrom(self.subj, 4) \o ".txt",
       "#SBATCH --time=30:00:00",
       "#SBATCH --mem=4000" >>

\* the text omnibus builds: textwrap.dedent(py_cmd), line by line
OmnibusCmd(self, preproc_args, model_args) ==
    SbatchHead(self) \o
    << "",
       "from func_process import workflows",
       "workflows.omnibus(",
       "    \"" \o self.subj \o "\",",
       "    \"" \o self.sess \o "\",",
       "    \"" \o self.proj_dir \o "\",",
       "    \"" \o self.work_dir \o "\",",
       "    \"" \o self.log_dir \o "\",",
       "    \"" \o self.user_name \o "\",",
       "    " \o DictRepr(preproc_args) \o ",",
       "    " \o DictRepr(model_args) \o ",",
       ")",
       "" >>

\* mutation: the subject is left out of the file name
ScriptPathNoSubj(self, wf_name) ==
    PathJoin(self.log_dir, "run_" \o wf_name \o "_" \o self.sess \o ".py")

\* the path _write_script gives the script
ScriptPath(self, wf_name) ==
    PathJoin(self.log_dir, "run_" \o wf_name \o "_" \o self.subj \o "_" \o self.sess \o ".py")

\* open(path, "w") succeeds when the directory of the path exists
CanOpenForWrite(log_dir) == log_dir \in dirs

\* mutation: the file is opened with "a", the text added to what it holds
WriteFileAppend(files, path, text) ==
    [p \in (DOMAIN files) \cup {path} |->
        IF p # path THEN files[p]
        ELSE IF path \in DOMAIN files THEN files[p] \o text ELSE text]

\* open(path, "w") followed by write: the file holds exactly what was written
WriteFile(files, path, text) ==
    [p \in (DOMAIN files) \cup {path} |-> IF p = path THEN text ELSE files[p]]

Entry(o, op, result, path, body, pa, ma) ==
    [obj |-> o, op |-> op, result |-> result, path |-> path, body |-> body,
     preproc_args |-> pa, model_args |-> ma]

\* mutation: a script file that exists is kept as it is
WriteScriptKeepFirst(o, wf_name, wf_cmd, pa, ma) ==
    LET self == objs[o]
        path == ScriptPath(self, wf_name)
        ok   == CanOpenForWrite(self.log_dir)
    IN  /\ objs' = [objs EXCEPT ![o].py_script = <<path>>]
        /\ fs' = IF ok /\ path \notin DOMAIN fs THEN WriteFile(fs, path, wf_cmd) ELSE fs
        /\ history' = Append(history,
               Entry(o, wf_name, IF ok THEN "ok" ELSE "FileNotFoundError",
                     path, wf_cmd, pa, ma))

\* _write_script: py_script is assigned first, then the file is opened and written
WriteScript(o, wf_name, wf_cmd, pa, ma) ==
    LET self == objs[o]
        path == ScriptPath(self, wf_name)
        ok   == CanOpenForWrite(self.log_dir)
    IN  /\ objs' = [objs EXCEPT ![o].py_script = <<path>>]
        /\ fs' = IF ok THEN WriteFile(fs, path, wf_cmd) ELSE fs
        /\ history' = Append(history,
               Entry(o, wf_name, IF ok THEN "ok" ELSE "FileNotFoundError",
                     path, wf_cmd, pa, ma))

\* omnibus(preproc_args, model_args)
Omnibus(o, preproc_args, model_args) ==
    /\ call = Idle
    /\ Len(history) < MaxOps
    /\ WriteScript(o, "omnibus", OmnibusCmd(objs[o], preproc_args, model_args),
                   preproc_args, model_args)
    /\ UNCHANGED <<executable, dirs, sbatch_calls, proc, call, printed>>
    /\ UNCHANGED <<mainVars, wfVars>>

\* the command line submit hands to Popen
SbatchCmd(self) == "sbatch " \o self.py_script[1]

\* submit, up to Popen: the hasattr guard, then the child process is started
SubmitCall(o) ==
    /\ call = Idle
    /\ Len(history) < MaxOps
    /\ IF ~HasPyScript(objs[o])
       THEN /\ history' = Append(history,
                   Entry(o, "submit", "AttributeError", "", <<>>, <<>>, <<>>))
            /\ UNCHANGED <<sbatch_calls, proc, call>>
       ELSE /\ sbatch_calls' = Append(sbatch_calls, SbatchCmd(objs[o]))
            /\ proc' = [state |-> "running", stdout |-> ""]
            /\ call' = o
            /\ history' = Append(history,
                   Entry(o, "submit", "ok", objs[o].py_script[1], <<>>, <<>>, <<>>))
    /\ UNCHANGED <<objs, executable, dirs, fs, printed>>
    /\ UNCHANGED <<mainVars, wfVars>>

\* the scheduler's submission command ends; it names a job only for a script it
\* could read
SbatchExit(out) ==
    /\ proc.state = "running"
    /\ (objs[call].py_script[1] \notin DOMAIN fs) => out = ""
    /\ proc' = [state |-> "exited", stdout |-> out]
    /\ UNCHANGED <<objs, executable, dirs, fs, history, sbatch_calls, call, printed>>
    /\ UNCHANGED <<mainVars, wfVars>>

\* mutation: communicate() returns while the child still runs
CommunicateNoWait(p) == p.state \in {"running", "exited"}

\* sp_job.communicate() returns once the child has closed stdout and exited
CommunicateReturns(p) == p.state = "exited"

\* the line submit prints
SubmitLine(sp_out, self) == sp_out \o "\tfor " \o self.subj \o ", " \o self.sess

\* submit, from communicate() to print
SubmitFinish ==
    /\ call # Idle
    /\ CommunicateReturns(proc)
    /\ printed' = Append(printed, SubmitLine(proc.stdout, objs[call]))
    /\ proc' = NoProc
    /\ call' = Idle
    /\ UNCHANGED <<objs, executable, dirs, fs, history, sbatch_calls>>
    /\ UNCHANGED <<mainVars, wfVars>>

---------------------------------------------------------------------------
(* idle values of the parts a specification does not run *)

MainIdle ==
    /\ argv = {} /\ subj_list = <<>> /\ environ = {} /\ main_pc = "off"
    /\ main_fault = "none" /\ exit_status = -1 /\ idx = 0

WfIdle ==
    /\ wf_preproc_args = <<>> /\ wf_model_args = <<>> /\ wf_paths_exist = TRUE
    /\ wf_types_ok = TRUE /\ wf_pc = "off" /\ wf_fault = [type |-> "none", msg |-> ""]
    /\ wf_calls = <<>> /\ wf_dirs = {}

ObjIdle ==
    /\ objs = [o \in {} |-> <<>>] /\ executable = "" /\ dirs = {} /\ fs = NoFile
    /\ history = <<>> /\ sbatch_calls = <<>> /\ proc = NoProc /\ call = Idle
    /\ printed = <<>>

---------------------------------------------------------------------------
(* SpecObj: any client of the class, as in its docstring example *)

InitObj ==
    /\ objs \in [Objs -> { ScheduleWorkflowInit(a.subj, a.sess, a.proj_dir, a.work_dir,
                                                a.log_dir, a.user_name) : a \in CtorArgs }]
    /\ executable \in Executables
    /\ dirs \in { {ProjDir, WorkDir} \cup D : D \in SUBSET LogDirs }
    /\ fs = NoFile
    /\ history = <<>>
    /\ sbatch_calls = <<>>
    /\ proc = NoProc
    /\ call = Idle
    /\ printed = <<>>
    /\ MainIdle
    /\ WfIdle

NextObj ==
    \/ \E o \in Objs, pa \in PreprocRecords, ma \in ModelRecords : Omnibus(o, pa, ma)
    \/ \E o \in Objs : SubmitCall(o)
    \/ \E out \in SbatchOutputs : SbatchExit(out)
    \/ SubmitFinish

SpecObj == InitObj /\ [][NextObj]_vars

---------------------------------------------------------------------------
(* cli._get_args and cli.main *)

\* the options of the command line that decide what main does
Options == {"-s", "-k", "--proj-dir"}
RequiredOptions == {"-s", "-k"}
EnvVars == {"SING_AFNI", "SING_FMRIPREP", "FS_LICENSE",
            "SINGULARITYENV_TEMPLATEFLOW_HOME", "USER", "FSLDIR"}
\* the lookups os.environ[...] of main, in the order main makes them
EnvLookups == <<"SING_AFNI", "SING_FMRIPREP", "FS_LICENSE",
                "SINGULARITYENV_TEMPLATEFLOW_HOME", "USER">>

DefaultProjDir == "/hpc/group/labarlab/EmoRep/Exp3_Classify_Archival/data_mri_BIDS"
GivenProjDir == "/proj/data_mri_BIDS"
DefaultSessions == <<"ses-BAS1">>
RsaKey == "/home/u/.ssh/id_rsa"
\* datetime.now().strftime("%y%m%d_%H%M") of the run
NowTime == "261102_2319"

Usage == "usage: func_archival"
ParseError == "func_archival: error: the following arguments are required"
MissingFsl == "Missing required global variable FSLDIR"

\* args.proj_dir
MainProjDir == IF "--proj-dir" \in argv THEN GivenProjDir ELSE DefaultProjDir
MainWorkDir == PathJoin(PathJoin("/work", UserName), "EmoRep")
MainLogDir == PathJoin(PathJoin(MainWorkDir, "logs"), "func_archival_" \o NowTime)

\* mutation: the arguments are parsed before len(sys.argv) is looked at
GetArgsParseFirst(av) ==
    IF ~(RequiredOptions \subseteq av) THEN "error"
    ELSE IF av = {} THEN "help" ELSE "parsed"

\* _get_args() and then parse_args(): the test of len(sys.argv) comes first
GetArgsOutcome(av) ==
    IF av = {} THEN "help"
    ELSE IF ~(RequiredOptions \subseteq av) THEN "error"
    ELSE "parsed"

\* main, line 132: the arguments are captured
MainGetArgs ==
    /\ main_pc = "start"
    /\ LET r == GetArgsOutcome(argv)
       IN  /\ main_pc' = IF r = "parsed" THEN "validate" ELSE "exited"
           /\ exit_status' = IF r = "help" THEN 0 ELSE IF r = "error" THEN 2 ELSE exit_status
           /\ printed' = IF r = "help" THEN Append(printed, Usage)
                         ELSE IF r = "error" THEN Append(printed, ParseError)
                         ELSE printed
    /\ UNCHANGED <<argv, subj_list, environ, main_fault, idx>>
    /\ UNCHANGED <<objs, executable, dirs, fs, history, sbatch_calls, proc, call>>
    /\ UNCHANGED wfVars

\* mutation: the existence test is dropped
PathExistsAlways(p) == TRUE

\* os.path.exists
PathExists(p) == p \in dirs

\* main, lines 142-145: the project directory must exist
MainValidate ==
    /\ main_pc = "validate"
    /\ IF ~PathExists(MainProjDir)
       THEN main_fault' = "FileNotFoundError" /\ main_pc' = "raised"
       ELSE main_fault' = main_fault /\ main_pc' = "environ"
    /\ UNCHANGED <<argv, subj_list, environ, exit_status, idx>>
    /\ UNCHANGED objVars
    /\ UNCHANGED wfVars

\* the first os.environ[...] lookup that finds no such name, <<>> if all do
FirstMissing(names, env) ==
    LET miss == {i \in DOMAIN names : names[i] \notin env}
    IN  IF miss = {} THEN <<>>
        ELSE <<names[CHOOSE i \in miss : \A j \in miss : i <= j]>>

\* main, lines 147-158: five lookups that raise KeyError, then FSLDIR, whose
\* KeyError is caught
MainEnviron ==
    /\ main_pc = "environ"
    /\ IF FirstMissing(EnvLookups, environ) # <<>>
       THEN /\ main_fault' = "KeyError"
            /\ main_pc' = "raised"
            /\ UNCHANGED <<printed, exit_status>>
       ELSE IF "FSLDIR" \notin environ
       THEN /\ printed' = Append(printed, MissingFsl)
            /\ exit_status' = 1
            /\ main_pc' = "exited"
            /\ UNCHANGED main_fault
       ELSE /\ main_pc' = "logdir"
            /\ UNCHANGED <<printed, exit_status, main_fault>>
    /\ UNCHANGED <<argv, subj_list, environ, idx>>
    /\ UNCHANGED <<objs, executable, dirs, fs, history, sbatch_calls, proc, call>>
    /\ UNCHANGED wfVars

\* main, lines 160-184: the log directory is made unless it exists
MainMakeLogDir ==
    /\ main_pc = "logdir"
    /\ IF ~PathExists(MainLogDir)
       THEN /\ dirs' = dirs \cup {MainWorkDir, PathJoin(MainWorkDir, "logs"), MainLogDir}
            /\ history' = Append(history,
                   Entry("main", "makedirs", "ok", MainLogDir, <<>>, <<>>, <<>>))
       ELSE UNCHANGED <<dirs, history>>
    /\ main_pc' = "loop"
    /\ UNCHANGED <<argv, subj_list, environ, main_fault, exit_status, idx>>
    /\ UNCHANGED <<objs, executable, fs, sbatch_calls, proc, call, printed>>
    /\ UNCHANGED wfVars

\* the parameters of ScheduleWorkflow.__init__ after self
InitParams == <<"subj", "sess", "proj_dir", "work_dir", "log_dir", "user_name">>
\* the names a ScheduleWorkflow object answers to
ScheduleWorkflowMethods == {"_sbatch_head", "_write_script", "omnibus", "submit"}

\* preproc_args as main builds it, with the default options: the items in the
\* order of the dict display, the values as repr() prints them
MainPreprocArgs ==
    << <<"sing_fmriprep", "'/sing/fmriprep.simg'">>,
       <<"tplflow_dir", "'/sing/templateflow'">>,
       <<"fs_license", "'/sing/license.txt'">>,
       <<"fd_thresh", "0.5">>,
       <<"ignore_fmaps", "False">>,
       <<"sing_afni", "'/sing/afni.simg'">> >>

\* model_args as main builds it, with the default options
MainModelArgs ==
    << <<"model_name", "'rest'">>,
       <<"model_level", "'first'">>,
       <<"preproc_type", "'scaled'">> >>

\* the positional arguments main gives the constructor
MainCtorArgs(subj) ==
    <<subj, DefaultSessions, MainProjDir, MainWorkDir, MainLogDir, UserName, RsaKey>>

\* what the body of the loop raises for one subject: the constructor call binds
\* its arguments to the parameters of __init__, then run_all is looked up
LoopBodyFault(subj) ==
    IF Len(MainCtorArgs(subj)) # Len(InitParams) THEN "TypeError"
    ELSE IF "run_all" \notin ScheduleWorkflowMethods THEN "AttributeError"
    ELSE "none"

\* mutation: the body's exception is caught and the loop goes on
LoopPcSwallow(fault, i, n) == IF i = n THEN "done" ELSE "loop"

\* where main is after the body ran for subject i of n: nothing in the loop
\* catches an exception
LoopPcAfter(fault, i, n) ==
    IF fault # "none" THEN "raised" ELSE IF i = n THEN "done" ELSE "loop"

\* main, lines 186-193: the loop takes the next subject
MainLoopBody ==
    /\ main_pc = "loop"
    /\ idx < Len(subj_list)
    /\ idx' = idx + 1
    /\ main_fault' = LoopBodyFault(subj_list[idx'])
    /\ main_pc' = LoopPcAfter(main_fault', idx', Len(subj_list))
    \* LoopBodyFault is "none" for no subject: lines 191-193 run in no behaviour
    /\ UNCHANGED <<argv, subj_list, environ, exit_status>>
    /\ UNCHANGED objVars
    /\ UNCHANGED wfVars

\* subject lists of 1..MaxSubj subjects (nargs="+")
SubjLists == UNION { [1..n -> Subjects] : n \in 1..MaxSubj }

InitMain ==
    /\ argv \in SUBSET Options
    /\ subj_list \in (IF "-s" \in argv THEN SubjLists ELSE {<<>>})
    /\ environ \in SUBSET EnvVars
    /\ dirs \in SUBSET {DefaultProjDir, GivenProjDir, MainLogDir}
    /\ main_pc = "start"
    /\ main_fault = "none"
    /\ exit_status = -1
    /\ idx = 0
    /\ objs = [o \in {} |-> <<>>] /\ executable \in Executables /\ fs = NoFile
    /\ history = <<>> /\ sbatch_calls = <<>> /\ proc = NoProc /\ call = Idle
    /\ printed = <<>>
    /\ WfIdle

NextMain ==
    \/ MainGetArgs
    \/ MainValidate
    \/ MainEnviron
    \/ MainMakeLogDir
    \/ MainLoopBody

SpecMain == InitMain /\ [][NextMain]_vars

---------------------------------------------------------------------------
(* workflows.omnibus and workflows.run_preprocess *)

\* mutation: no_freesurfer is left out of the required keys
PreprocKeysShort ==
    <<"sing_fmriprep", "tplflow_dir", "fs_license", "fd_thresh", "ignore_fmaps",
      "sing_afni">>

\* preproc_keys, the keys omnibus requires of preproc_args, in checking order
PreprocKeys ==
    <<"sing_fmriprep", "tplflow_dir", "fs_license", "fd_thresh", "ignore_fmaps",
      "no_freesurfer", "sing_afni">>

\* model_keys
ModelKeys == <<"model_name">>

\* the keys run_preprocess is given by preproc_args[...], in evaluation order
PreprocLookups ==
    <<"sing_fmriprep", "tplflow_dir", "fs_license", "fd_thresh", "ignore_fmaps",
      "no_freesurfer", "sing_afni">>

\* for chk_key in keys: if chk_key not in d.keys(): the first such key, or <<>>
MissingKey(keys, d) ==
    LET miss == {i \in DOMAIN keys : keys[i] \notin Keys(d)}
    IN  IF miss = {} THEN <<>>
        ELSE <<keys[CHOOSE i \in miss : \A j \in miss : i <= j]>>

KeyErr(msg) == [type |-> "KeyError", msg |-> msg]
NoFault == [type |-> "none", msg |-> ""]

\* what omnibus raises before it calls run_preprocess, "none" if nothing
OmnibusFault(preproc_args, model_args) ==
    IF MissingKey(PreprocKeys, preproc_args) # <<>>
    THEN KeyErr("Expected key " \o MissingKey(PreprocKeys, preproc_args)[1]
                    \o " in preproc_args")
    ELSE IF MissingKey(ModelKeys, model_args) # <<>>
    THEN KeyErr("Expected key " \o MissingKey(ModelKeys, model_args)[1]
                    \o " in model_args")
    ELSE IF MissingKey(PreprocLookups, preproc_args) # <<>>
    THEN KeyErr("'" \o MissingKey(PreprocLookups, preproc_args)[1] \o "'")
    ELSE NoFault

\* omnibus, lines 246-279: the required keys are checked, the arguments looked
\* up, and run_preprocess is entered
WfOmnibus ==
    /\ wf_pc = "start"
    /\ wf_fault' = OmnibusFault(wf_preproc_args, wf_model_args)
    /\ IF wf_fault' # NoFault
       THEN wf_pc' = "raised" /\ UNCHANGED wf_calls
       ELSE wf_pc' = "run_preprocess" /\ wf_calls' = Append(wf_calls, "run_preprocess")
    /\ UNCHANGED <<wf_preproc_args, wf_model_args, wf_paths_exist, wf_types_ok, wf_dirs>>
    /\ UNCHANGED objVars
    /\ UNCHANGED mainVars

\* the directories run_preprocess makes
PreprocDirs ==
    { PathJoin(ProjDir, "derivatives/pre_processing/fmriprep"),
      PathJoin(ProjDir, "derivatives/pre_processing/fsl_denoise"),
      PathJoin(WorkDir, "pre_processing"),
      PathJoin(WorkDir, "pre_processing/fmriprep"),
      PathJoin(WorkDir, "pre_processing/fsl_denoise") }

\* run_preprocess: the parameters are validated, the directories made, and
\* fmriprep and the FSL preprocessing are run; omnibus then returns
WfRunPreprocess ==
    /\ wf_pc = "run_preprocess"
    /\ IF ~wf_paths_exist
       THEN /\ wf_fault' = [type |-> "FileNotFoundError", msg |-> "Expected"]
            /\ wf_pc' = "raised"
            /\ UNCHANGED <<wf_calls, wf_dirs>>
       ELSE IF ~wf_types_ok
       THEN /\ wf_fault' = [type |-> "TypeError", msg |-> "Expected type"]
            /\ wf_pc' = "raised"
            /\ UNCHANGED <<wf_calls, wf_dirs>>
       ELSE /\ wf_dirs' = wf_dirs \cup PreprocDirs
            /\ wf_calls' = wf_calls \o <<"pp.fmriprep", "pp.fsl_preproc">>
            /\ wf_pc' = "done"
            /\ UNCHANGED wf_fault
    /\ UNCHANGED <<wf_preproc_args, wf_model_args, wf_paths_exist, wf_types_ok>>
    /\ UNCHANGED objVars
    /\ UNCHANGED mainVars

\* a dict holding the keys of ks that are in K, each with a value
DictOf(ks, K) ==
    LET sel == SelectSeq(ks, LAMBDA k : k \in K)
    IN  [i \in DOMAIN sel |-> <<sel[i], "v">>]

Range(q) == {q[i] : i \in DOMAIN q}

InitWf ==
    /\ wf_preproc_args \in {DictOf(PreprocLookups, K) : K \in SUBSET Range(PreprocLookups)}
                            \cup {MainPreprocArgs}
    /\ wf_model_args \in {DictOf(ModelKeys, K) : K \in SUBSET Range(ModelKeys)}
                          \cup {MainModelArgs}
    /\ wf_paths_exist \in BOOLEAN
    /\ wf_types_ok \in BOOLEAN
    /\ wf_pc = "start"
    /\ wf_fault = NoFault
    /\ wf_calls = <<>>
    /\ wf_dirs = {}
    /\ ObjIdle
    /\ MainIdle

NextWf ==
    \/ WfOmnibus
    \/ WfRunPreprocess

SpecWf == InitWf /\ [][NextWf]_vars

---------------------------------------------------------------------------
(* Properties of ScheduleWorkflow, under SpecObj *)

Last(q) == q[Len(q)]

\* this step is the start of a call of method op on object o
CallStep(o, op) ==
    /\ Len(history') = Len(history) + 1
    /\ Last(history').obj = o
    /\ Last(history').op = op

\* a generate operation on o has completed: it returned, the script written
Generated(o) ==
    \E i \in DOMAIN history :
        history[i].obj = o /\ history[i].op # "submit" /\ history[i].result = "ok"

\* the path of the script the latest completed generate operation on o wrote
LastGeneratedPath(o) ==
    LET done == {i \in DOMAIN history :
                    history[i].obj = o /\ history[i].op # "submit"
                    /\ history[i].result = "ok"}
    IN  history[CHOOSE i \in done : \A j \in done : j <= i].path

NoSideEffect ==
    /\ fs' = fs /\ dirs' = dirs /\ sbatch_calls' = sbatch_calls
    /\ proc' = proc /\ printed' = printed

\* C1: on an object on which no generate operation has completed, submit()
\* raises AttributeError, writes no file and does not run the submission
\* command.
C1_SubmitNeedsCompletedGenerate ==
    [][\A o \in Objs :
          (CallStep(o, "submit") /\ ~Generated(o))
              => (Last(history').result = "AttributeError" /\ NoSideEffect)]_vars

\* the part of C1 the code keeps: on an object on which generate was never
\* called at all, submit() raises AttributeError and changes nothing
SubmitBeforeAnyGenerateRaises ==
    [][\A o \in Objs :
          (CallStep(o, "submit") /\ ~HasPyScript(objs[o]))
              => (Last(history').result = "AttributeError" /\ NoSideEffect
                  /\ objs' = objs)]_vars

\* C4: once a script has been generated, submit() runs the submission command
\* exactly once, on the object's most recently generated script; it prints only
\* after that command has returned, and prints the captured stdout together
\* with the subject and the session.
C4_SubmitRunsSbatchThenPrints ==
    /\ [](Len(sbatch_calls) = Len(printed) + (IF call = Idle THEN 0 ELSE 1))
    /\ [][/\ \A o \in Objs :
                (CallStep(o, "submit") /\ Generated(o))
                    => /\ sbatch_calls' =
                              Append(sbatch_calls, "sbatch " \o LastGeneratedPath(o))
                       /\ printed' = printed
          /\ (printed' # printed /\ call # Idle)
                => /\ proc.state = "exited"
                   /\ sbatch_calls' = sbatch_calls
                   /\ printed' = Append(printed,
                          proc.stdout \o "\tfor " \o objs[call].subj
                                      \o ", " \o objs[call].sess)
          /\ (printed' # printed) => call # Idle]_vars

\* a submit() of a generated script has printed the job line of its subject
C4_Witness ==
    /\ printed # <<>>
    /\ \E o \in Objs :
          /\ Generated(o)
          /\ Last(history).obj = o /\ Last(history).op = "submit"
          /\ call = Idle
          /\ Last(printed) = "Submitted batch job 7\n\tfor " \o objs[o].subj
                                 \o ", " \o objs[o].sess

OkOmnibus(i) == history[i].op = "omnibus" /\ history[i].result = "ok"

SameAttrs(a, b) ==
    /\ a.subj = b.subj /\ a.sess = b.sess /\ a.proj_dir = b.proj_dir
    /\ a.work_dir = b.work_dir /\ a.log_dir = b.log_dir /\ a.user_name = b.user_name

---------------------------------------------------------------------------
(* Properties of cli.main, under SpecMain *)

RunEnded == main_pc \in {"done", "raised", "exited"}
\* the loop over the subjects was entered
LoopEntered == idx >= 1
\* the command line parsed and the project directory was found
PastValidation == RequiredOptions \subseteq argv /\ MainProjDir \in dirs
LogDirMade == \E i \in DOMAIN history : history[i].op = "makedirs"
NothingStarted == ~LogDirMade /\ fs = NoFile /\ sbatch_calls = <<>> /\ idx = 0

\* the script of one subject/session pair of the run
MainScriptPath(subj, sess) ==
    PathJoin(MainLogDir, "run_omnibus_" \o subj \o "_" \o sess \o ".py")
MainPairs == {<<subj_list[i], DefaultSessions[k]>> :
                 i \in DOMAIN subj_list, k \in DOMAIN DefaultSessions}

\* C2: when a run of the main loop ends, exactly one script file exists per
\* subject/session pair, at <log_dir>/run_<step>_<subject>_<session>.py.
C2_OneScriptPerPair ==
    (RunEnded /\ LoopEntered)
        => /\ \A pr \in MainPairs : MainScriptPath(pr[1], pr[2]) \in DOMAIN fs
           /\ Cardinality(DOMAIN fs) = Cardinality(MainPairs)

\* subject i of the list was generated as call g and submitted as call s
GenThenSubmit(i, g, s) ==
    /\ g < s
    /\ history[g].op = "omnibus" /\ history[g].result = "ok"
    /\ \E k \in DOMAIN DefaultSessions :
          history[g].path = MainScriptPath(subj_list[i], DefaultSessions[k])
    /\ history[s].op = "submit" /\ history[s].path = history[g].path

\* C3: the loop generates and then submits each subject of the list, in list
\* order, and submits subject i before it generates subject i+1.
C3_GenerateThenSubmitInOrder ==
    (RunEnded /\ LoopEntered)
        => \E g, s \in [DOMAIN subj_list -> DOMAIN history] :
              /\ \A i \in DOMAIN subj_list : GenThenSubmit(i, g[i], s[i])
              /\ \A i \in DOMAIN subj_list : i > 1 => s[i - 1] < g[i]

\* C6: with the required arguments given and no project directory, main raises
\* FileNotFoundError, and then no log directory was made, no script generated
\* and nothing submitted.
C6_MissingProjDirRaises ==
    /\ (RequiredOptions \subseteq argv /\ MainProjDir \notin dirs
          /\ main_pc \notin {"start", "validate"})
            => (main_pc = "raised" /\ main_fault = "FileNotFoundError")
    /\ main_fault = "FileNotFoundError"
            => (MainProjDir \notin dirs /\ NothingStarted /\ exit_status = -1)

C6_Witness ==
    /\ main_fault = "FileNotFoundError" /\ main_pc = "raised"
    /\ "--proj-dir" \notin argv /\ environ = EnvVars

\* C7: whichever required environment variable is absent, main prints a message
\* and exits with status 1, before the log directory is made and before any
\* script is generated or submitted.
C7_MissingEnvPrintsAndExits ==
    \A v \in EnvVars :
        (PastValidation /\ v \notin environ /\ RunEnded)
            => (main_pc = "exited" /\ exit_status = 1 /\ printed # <<>>
                /\ NothingStarted)

\* C8: once the body of the loop has raised for a subject the run is over: no
\* later subject is taken up, and directories, files and submissions stay as
\* they are.
C8_RaiseAbortsRun ==
    /\ []((LoopEntered /\ main_fault # "none") => main_pc = "raised")
    /\ [][(LoopEntered /\ main_fault # "none")
             => (idx' = idx /\ dirs' = dirs /\ fs' = fs
                 /\ sbatch_calls' = sbatch_calls /\ history' = history)]_vars

\* the body raised for the first of two subjects, after the log directory was made
C8_Witness ==
    /\ main_pc = "raised" /\ main_fault = "TypeError"
    /\ idx = 1 /\ Len(subj_list) = 2
    /\ LogDirMade /\ MainLogDir \in dirs

\* C9: with no argument at all, main prints the usage and exits with status 0;
\* nothing is parsed, checked, generated or submitted.
C9_NoArgumentsPrintsUsage ==
    (argv = {} /\ main_pc # "start")
        => /\ main_pc = "exited" /\ exit_status = 0
           /\ printed = <<Usage>>
           /\ main_fault = "none"
           /\ NothingStarted

C9_Witness == argv = {} /\ main_pc = "exited" /\ environ = {} /\ dirs = {}

---------------------------------------------------------------------------
(* Properties of workflows.omnibus, under SpecWf *)

\* the record lacks exactly the required key k
LacksOnly(d, k) == Keys(d) = Range(PreprocLookups) \ {k}

\* C5: for a preprocessing record that lacks exactly one required key, omnibus
\* raises a KeyError whose message names that key, before run_preprocess is
\* called, so before a directory is made or an external process launched.
C5_MissingKeyNamed ==
    \A k \in Range(PreprocLookups) :
        (LacksOnly(wf_preproc_args, k) /\ wf_pc # "start")
            => /\ wf_pc = "raised"
               /\ wf_fault = [type |-> "KeyError",
                              msg |-> "Expected key " \o k \o " in preproc_args"]
               /\ wf_calls = <<>>
               /\ wf_dirs = {}

\* omnibus has raised for a record without the displacement threshold only
C5_Witness ==
    /\ LacksOnly(wf_preproc_args, "fd_thresh")
    /\ wf_pc = "raised"
    /\ wf_fault.type = "KeyError"
    /\ wf_paths_exist /\ wf_types_ok /\ Keys(wf_model_args) = {"model_name"}

---------------------------------------------------------------------------
(* Script files of several subjects in one log directory, under SpecObj *)

\* the string holds the character "_"
HasUnderscore(str) == \E i \in 1..Len(str) : SubSeq(str, i, i) = "_"

\* the scripts two entries of the history wrote are those of two distinct
\* subjects of one log directory
DistinctSubjects(i, j) ==
    /\ OkOmnibus(i) /\ OkOmnibus(j)
    /\ objs[history[i].obj].log_dir = objs[history[j].obj].log_dir
    /\ objs[history[i].obj].subj # objs[history[j].obj].subj

\* the two have the same session, or no identifier of either holds "_"
SameSessionOrPlainIds(a, b) ==
    \/ a.sess = b.sess
    \/ ~(HasUnderscore(a.subj) \/ HasUnderscore(a.sess)
         \/ HasUnderscore(b.subj) \/ HasUnderscore(b.sess))

---------------------------------------------------------------------------
(* Generating again for the same subject and session, under SpecObj *)

\* entry i of the history is a submit() of object o that started the
\* submission command
SubmittedAt(o, i) ==
    history[i].obj = o /\ history[i].op = "submit" /\ history[i].result = "ok"

\* C12: a generate operation invoked again on an object writes to the path
\* of its earlier script; the file then holds only the latest body and no
\* other file appears; and whether the operation succeeds depends on the log
\* directory alone, not on any submit() of the object before it.
C12_RegenerateOverwrites ==
    [][\A o \in Objs :
          CallStep(o, "omnibus")
              => LET e == Last(history')
                 IN  /\ (e.result = "ok") <=> (objs[o].log_dir \in dirs)
                     /\ (e.result = "ok")
                            => /\ fs'[e.path] = e.body
                               /\ DOMAIN fs' = DOMAIN fs \cup {e.path}
                               /\ \A p \in DOMAIN fs : p # e.path => fs'[p] = fs[p]
                     /\ \A j \in DOMAIN history :
                            (/\ OkOmnibus(j)
                             /\ objs[history[j].obj].subj = objs[o].subj
                             /\ objs[history[j].obj].sess = objs[o].sess
                             /\ objs[history[j].obj].log_dir = objs[o].log_dir
                             /\ e.result = "ok")
                                => /\ e.path = history[j].path
                                   /\ DOMAIN fs' = DOMAIN fs]_vars

\* an object generated, submitted, and generated again with other records:
\* the one script file holds the latest body, not the first
C12_Witness ==
    \E i, j, k \in DOMAIN history :
        /\ i < j /\ j < k
        /\ OkOmnibus(i) /\ OkOmnibus(k)
        /\ history[i].obj = history[k].obj
        /\ SubmittedAt(history[i].obj, j)
        /\ history[i].path = history[k].path
        /\ history[i].body # history[k].body
        /\ fs[history[k].path] = history[k].body
        /\ Cardinality(DOMAIN fs) = 1

---------------------------------------------------------------------------
(* The records of cli.main given to workflows.omnibus, under SpecWf *)

\* C13: the records main builds hold every key omnibus requires, so omnibus
\* called with them raises no KeyError and calls run_preprocess.
C13_CliRecordsReachPreprocess ==
    (/\ wf_preproc_args = MainPreprocArgs
     /\ wf_model_args = MainModelArgs
     /\ wf_pc # "start")
        => /\ Range(PreprocKeys) \subseteq Keys(wf_preproc_args)
           /\ Range(ModelKeys) \subseteq Keys(wf_model_args)
           /\ wf_fault.type # "KeyError"
           /\ wf_calls # <<>>

==========================================================================
